---- MODULE Spec2Model ----
(***************************************************************************)
(* Model of the POST /api/analyze handler of ai-seo-agent                  *)
(* (server/routes/api/analyze.post.ts): configuration and credential       *)
(* checks, body validation, the research call, the extraction of source    *)
(* URLs from the research steps, the synthesis call constrained by         *)
(* AnalyzeResponseSchema, and the catch block that maps failures to HTTP   *)
(* statuses.                                                               *)
(*                                                                         *)
(* JavaScript values are records tagged by "kind".  A JavaScript string is *)
(* the sequence of its characters (one-character TLA+ strings), so that    *)
(* trim, slice, includes, join and iteration are computed on characters.   *)
(***************************************************************************)
EXTENDS Integers, Sequences, FiniteSets, TLC

VARIABLES config, env, query, body, pc, statusCode, message, compared,
          researchCalls, synthesisCalls, content, research, thrown,
          sourceUrls, prompt, generated, response

vars == <<config, env, query, body, pc, statusCode, message, compared,
          researchCalls, synthesisCalls, content, research, thrown,
          sourceUrls, prompt, generated, response>>

----------------------------------------------------------------------------
(* JavaScript values *)

Undefined == [kind |-> "undefined"]

Null == [kind |-> "null"]

Num(n) == [kind |-> "number", num |-> n]

Str(s) == [kind |-> "string", str |-> s]

Arr(items) == [kind |-> "array", items |-> items]

Obj(fields) == [kind |-> "object", fields |-> fields]

\* ToBoolean: undefined, null, 0 and "" are falsy; objects and arrays are truthy.
Truthy(v) ==
  CASE v.kind = "undefined" -> FALSE
    [] v.kind = "null" -> FALSE
    [] v.kind = "number" -> v.num # 0
    [] v.kind = "string" -> Len(v.str) > 0
    [] OTHER -> TRUE

\* typeof: arrays and null are "object".
TypeOf(v) ==
  CASE v.kind = "undefined" -> "undefined"
    [] v.kind = "number" -> "number"
    [] v.kind = "string" -> "string"
    [] OTHER -> "object"

IsArray(v) == v.kind = "array"

\* Property access v.name throws a TypeError on undefined and null.
GetThrows(v) == v.kind \in {"undefined", "null"}

\* "name" in v, for an object or array v (none of the names read by the
\* handler is an own or inherited property of an array).
HasField(v, name) == v.kind = "object" /\ name \in DOMAIN v.fields

\* v.name for v other than undefined and null: primitives and arrays have
\* none of the properties the handler reads.
Get(v, name) == IF HasField(v, name) THEN v.fields[name] ELSE Undefined

\* for (const x of v) throws a TypeError unless v is an array or a string.
Iterable(v) == v.kind \in {"array", "string"}

\* The values for..of yields: the items of an array, the characters of a string.
Items(v) ==
  IF v.kind = "array" THEN v.items
  ELSE [i \in 1..Len(v.str) |-> Str(<<v.str[i]>>)]

\* a === b on the values a credential can take: strings are equal by
\* content, an array is never equal to a string.
StrictEquals(a, b) == a.kind = "string" /\ b.kind = "string" /\ a.str = b.str

\* a || b with the fallback forgotten.
OrElseLeft(a, b) == a

\* a || b
OrElse(a, b) == IF Truthy(a) THEN a ELSE b

----------------------------------------------------------------------------
(* Strings *)

\* The characters String.prototype.trim removes that occur in the model.
WhiteSpace == {" ", "\t", "\n"}

RECURSIVE TrimStart(_)
TrimStart(s) ==
  IF Len(s) > 0 /\ Head(s) \in WhiteSpace THEN TrimStart(Tail(s)) ELSE s

RECURSIVE TrimEnd(_)
TrimEnd(s) ==
  IF Len(s) > 0 /\ s[Len(s)] \in WhiteSpace
  THEN TrimEnd(SubSeq(s, 1, Len(s) - 1)) ELSE s

\* s.trim() left out.
TrimNothing(s) == s

\* s.trim()
Trim(s) == TrimEnd(TrimStart(s))

\* s.slice(0, n) for n >= 0
SliceFromStart(s, n) == SubSeq(s, 1, IF Len(s) < n THEN Len(s) ELSE n)

\* s.includes(sub)
Includes(s, sub) ==
  \E i \in 0..(Len(s) - Len(sub)) : SubSeq(s, i + 1, i + Len(sub)) = sub

\* urls.join(sep)
RECURSIVE Join(_, _)
Join(urls, sep) ==
  IF Len(urls) = 0 THEN <<>>
  ELSE IF Len(urls) = 1 THEN urls[1]
  ELSE urls[1] \o sep \o Join(Tail(urls), sep)

----------------------------------------------------------------------------
(* Errors and completions *)

\* A thrown value: whether it is an Error instance, and its message.
Error(msg) == [isError |-> TRUE, message |-> msg]

NotThrown == [isError |-> FALSE, message |-> <<>>]

KindName(v) == IF v.kind = "null" THEN <<"n", "u", "l", "l">> ELSE <<"u", "n", "d", "e", "f", "i", "n", "e", "d">>

\* TypeError of reading a property of undefined or null.
CannotRead(v, name) ==
  Error(<<"C", "a", "n", "n", "o", "t", " ", "r", "e", "a", "d", " ", "p", "r", "o", "p", "e", "r", "t", "i", "e", "s", " ", "o", "f", " ">> \o KindName(v) \o <<" ", "(", "r", "e", "a", "d", "i", "n", "g", " ", "'">> \o name \o <<"'", ")">>)

\* TypeError of for..of over a value that is not iterable.
NotIterable(expr) == Error(expr \o <<" ", "i", "s", " ", "n", "o", "t", " ", "i", "t", "e", "r", "a", "b", "l", "e">>)

\* Completion of a block: normal with the URLs it pushed, or abrupt.
Normal(urls) == [threw |-> FALSE, urls |-> urls, error |-> NotThrown]

Throw(e) == [threw |-> TRUE, urls |-> <<>>, error |-> e]

\* a; b where b pushes only the URLs that a has not pushed.
ThenWithoutDuplicates(a, b) ==
  IF a.threw THEN a
  ELSE [threw |-> b.threw,
        urls |-> a.urls \o SelectSeq(b.urls,
                   LAMBDA u : \A i \in 1..Len(a.urls) : a.urls[i] # u),
        error |-> b.error]

\* a; b
Then(a, b) ==
  IF a.threw THEN a
  ELSE [threw |-> b.threw, urls |-> a.urls \o b.urls, error |-> b.error]

----------------------------------------------------------------------------
(* Extraction of the source URLs from the research steps *)

\* The innermost if: r && typeof r === "object" && "url" in r &&
\* typeof r.url === "string", then sourceUrls.push(r.url).
ElementUrls(r) ==
  IF /\ Truthy(r)
     /\ TypeOf(r) = "object"
     /\ HasField(r, "url")
     /\ TypeOf(Get(r, "url")) = "string"
  THEN <<Get(r, "url").str>>
  ELSE <<>>

\* for (const r of resultObj.results)
RECURSIVE ResultsUrls(_)
ResultsUrls(items) ==
  IF Len(items) = 0 THEN <<>>
  ELSE ElementUrls(Head(items)) \o ResultsUrls(Tail(items))

\* if (result.result && typeof result.result === "object") and
\* if (Array.isArray(resultObj.results))
PayloadUrls(p) ==
  IF Truthy(p) /\ TypeOf(p) = "object"
  THEN IF IsArray(Get(p, "results"))
       THEN ResultsUrls(Get(p, "results").items)
       ELSE <<>>
  ELSE <<>>

\* The body of for (const result of step.toolResults): reads result.result.
ToolResultUrls(result) ==
  IF GetThrows(result) THEN Throw(CannotRead(result, <<"r", "e", "s", "u", "l", "t">>))
  ELSE Normal(PayloadUrls(Get(result, "result")))

RECURSIVE ToolResultsUrls(_)
ToolResultsUrls(items) ==
  IF Len(items) = 0 THEN Normal(<<>>)
  ELSE Then(ToolResultUrls(Head(items)), ToolResultsUrls(Tail(items)))

\* The body of for (const step of research.steps): if (step.toolResults)
\* and the loop over it.
StepUrls(step) ==
  IF GetThrows(step) THEN Throw(CannotRead(step, <<"t", "o", "o", "l", "R", "e", "s", "u", "l", "t", "s">>))
  ELSE IF ~Truthy(Get(step, "toolResults")) THEN Normal(<<>>)
  ELSE IF ~Iterable(Get(step, "toolResults"))
       THEN Throw(NotIterable(<<"s", "t", "e", "p", ".", "t", "o", "o", "l", "R", "e", "s", "u", "l", "t", "s">>))
  ELSE ToolResultsUrls(Items(Get(step, "toolResults")))

RECURSIVE StepsUrls(_)
StepsUrls(items) ==
  IF Len(items) = 0 THEN Normal(<<>>)
  ELSE Then(StepUrls(Head(items)), StepsUrls(Tail(items)))

\* if (research.steps) and the loop over it.
ExtractSourceUrls(r) ==
  IF ~Truthy(Get(r, "steps")) THEN Normal(<<>>)
  ELSE IF ~Iterable(Get(r, "steps"))
       THEN Throw(NotIterable(<<"r", "e", "s", "e", "a", "r", "c", "h", ".", "s", "t", "e", "p", "s">>))
  ELSE StepsUrls(Items(Get(r, "steps")))

----------------------------------------------------------------------------
(* The synthesis prompt *)

PrefixBound == 2000

TruncationMarker == <<".", ".", ".">>

\* The marker appended from the bound on: content.length >= 2000.
ContentSegmentAtBound(c) ==
  SliceFromStart(c, PrefixBound)
    \o (IF Len(c) >= PrefixBound THEN TruncationMarker ELSE <<>>)

\* ${content.slice(0, 2000)}${content.length > 2000 ? "..." : ""}
ContentSegment(c) ==
  SliceFromStart(c, PrefixBound)
    \o (IF Len(c) > PrefixBound THEN TruncationMarker ELSE <<>>)

\* Only the first URL listed: sourceUrls[0] in place of the join.
SourcesSegmentFirstOnly(urls) ==
  IF Len(urls) > 0
  THEN <<"\n", "A", "v", "a", "i", "l", "a", "b", "l", "e", " ", "s", "o", "u", "r", "c", "e", " ", "U", "R", "L", "s", " ", "f", "r", "o", "m", " ", "r", "e", "s", "e", "a", "r", "c", "h", ":", "\n">> \o urls[1]
  ELSE <<>>

\* ${sourceUrls.length > 0 ? `\nAvailable source URLs ...` : ""}
SourcesSegment(urls) ==
  IF Len(urls) > 0
  THEN <<"\n", "A", "v", "a", "i", "l", "a", "b", "l", "e", " ", "s", "o", "u", "r", "c", "e", " ", "U", "R", "L", "s", " ", "f", "r", "o", "m", " ", "r", "e", "s", "e", "a", "r", "c", "h", ":", "\n">> \o Join(urls, <<"\n">>)
  ELSE <<>>

\* ${research.text}
TextSegment(r) ==
  IF Get(r, "text").kind = "string" THEN Get(r, "text").str ELSE <<"u", "n", "d", "e", "f", "i", "n", "e", "d">>

\* The interpolated parts of the generateObject prompt; the text between
\* them is fixed.
SynthesisPrompt(r, c, urls) ==
  [research |-> TextSegment(r),
   content |-> ContentSegment(c),
   sources |-> SourcesSegment(urls)]

NoPrompt == [research |-> <<>>, content |-> <<>>, sources |-> <<>>]

----------------------------------------------------------------------------
(* AnalyzeResponseSchema *)

IsString(v) == v.kind = "string"

ImpactLevels == {<<"h", "i", "g", "h">>, <<"m", "e", "d", "i", "u", "m">>, <<"l", "o", "w">>}

\* SuggestionSchema
SuggestionConforms(s) ==
  /\ s.kind = "object"
  /\ IsString(Get(s, "title"))
  /\ IsString(Get(s, "impact")) /\ Get(s, "impact").str \in ImpactLevels
  /\ IsString(Get(s, "recommendation"))

\* z.number() without its range.
ScoreConformsUnbounded(v) == v.kind = "number"

\* z.number().min(0).max(100)
ScoreConforms(v) == v.kind = "number" /\ v.num >= 0 /\ v.num <= 100

\* z.array(SuggestionSchema)
SuggestionsConform(v) ==
  IsArray(v) /\ \A i \in 1..Len(v.items) : SuggestionConforms(v.items[i])

\* z.array(z.string())
SourcesConform(v) ==
  IsArray(v) /\ \A i \in 1..Len(v.items) : IsString(v.items[i])

Conforms(o) ==
  /\ o.kind = "object"
  /\ ScoreConforms(Get(o, "contentScore"))
  /\ SuggestionsConform(Get(o, "suggestions"))
  /\ SourcesConform(Get(o, "sources"))

\* The failure generateObject rejects with when the generated value does not
\* match the schema it was given.
NoObjectGenerated ==
  Error(<<"N", "o", " ", "o", "b", "j", "e", "c", "t", " ", "g", "e", "n", "e", "r", "a", "t", "e", "d", ":", " ", "r", "e", "s", "p", "o", "n", "s", "e", " ", "d", "i", "d", " ", "n", "o", "t", " ", "m", "a", "t", "c", "h", " ", "s", "c", "h", "e", "m", "a", ".">>)

----------------------------------------------------------------------------
(* The catch block *)

\* error instanceof Error, without the test of the message.
ApiFaultAnyError(e) == e.isError

\* error instanceof Error && error.message.includes("API")
ApiFault(e) == e.isError /\ Includes(e.message, <<"A", "P", "I">>)

ServiceUnavailableMessage ==
  <<"A", "I", " ", "s", "e", "r", "v", "i", "c", "e", " ", "t", "e", "m", "p", "o", "r", "a", "r", "i", "l", "y", " ", "u", "n", "a", "v", "a", "i", "l", "a", "b", "l", "e", ".", " ", "P", "l", "e", "a", "s", "e", " ", "t", "r", "y", " ", "a", "g", "a", "i", "n", ".">>

AnalysisFailedMessage == <<"F", "a", "i", "l", "e", "d", " ", "t", "o", " ", "a", "n", "a", "l", "y", "z", "e", " ", "c", "o", "n", "t", "e", "n", "t", ".", " ", "P", "l", "e", "a", "s", "e", " ", "t", "r", "y", " ", "a", "g", "a", "i", "n", ".">>

CatchStatus(e) == IF ApiFault(e) THEN 503 ELSE 500

CatchMessage(e) ==
  IF ApiFault(e) THEN ServiceUnavailableMessage ELSE AnalysisFailedMessage

\* throw createError({ statusCode, message })
Fail(code, msg) ==
  /\ pc' = "error"
  /\ statusCode' = code
  /\ message' = msg

\* catch (error) { ... }
Caught(e) ==
  /\ thrown' = e
  /\ Fail(CatchStatus(e), CatchMessage(e))

----------------------------------------------------------------------------
(* Inputs *)

MaxStepsLen == 2

MaxToolResultsLen == 2

MaxResultsLen == 2

SeqsUpTo(S, n) == UNION {[1..k -> S] : k \in 0..n}

SecretA == <<"a", "l", "p", "h", "a">>

SecretB == <<"b", "e", "t", "a">>

KeyA == <<"k", "e", "y", "-", "1">>

KeyB == <<"k", "e", "y", "-", "2">>

\* runtimeConfig of nitro.config.ts: both entries default to "".
Configs ==
  [agentSecret : {Str(<<>>), Str(SecretA)},
   aiGatewayApiKey : {Str(<<>>), Str(KeyA)}]

\* process.env as the handler reads it.
Envs ==
  [AGENT_SECRET : {Undefined, Str(SecretB)},
   AI_GATEWAY_API_KEY : {Undefined, Str(KeyB)}]

\* query["agent-secret"]: absent, empty, a string, or an array when the
\* parameter is repeated.
Queries ==
  {Undefined, Str(<<>>), Str(SecretA), Str(SecretB),
   Arr(<<Str(SecretA), Str(SecretA)>>)}

\* Content of n characters without white space.
Fill(n) == [i \in 1..n |-> IF i % 2 = 1 THEN "a" ELSE "b"]

ContentLengths == {PrefixBound - 1, PrefixBound, PrefixBound + 1}

Contents ==
  {<<>>, <<" ", " ", "\t", "\n">>, <<" ", "a", "b", " ">>, <<" ">> \o Fill(PrefixBound) \o <<"\n">>}
    \cup {Fill(n) : n \in ContentLengths}

Bodies ==
  {Undefined, Obj([fields |-> Str(<<"x">>)]), Obj([content |-> Num(5)])}
    \cup {Obj([content |-> Str(c)]) : c \in Contents}

UrlA == <<"h", "t", "t", "p", "s", ":", "/", "/", "n", "a", "s", "a", ".", "g", "o", "v", "/", "m", "o", "o", "n", "-", "f", "a", "c", "t", "s">>

UrlB == <<"h", "t", "t", "p", "s", ":", "/", "/", "b", ".", "e", "x", "a", "m", "p", "l", "e">>

\* A well-formed element of a results array.
Element(u) == Obj([url |-> Str(u)])

\* Elements of a results array, one per condition of the innermost if.
Elements ==
  {Element(UrlA), Element(UrlB), Null, Str(UrlA),
   Obj([title |-> Str(UrlA)]), Obj([url |-> Num(7)])}

\* Values of the results field: arrays, and values that are not arrays.
ResultsValues ==
  {Arr(a) : a \in SeqsUpTo(Elements, MaxResultsLen)}
    \cup {Str(UrlA), Element(UrlA)}

\* Tool result payloads: objects with and without results, and
\* values that are not objects.
Payloads ==
  {Obj([results |-> r]) : r \in ResultsValues}
    \cup {Obj([error |-> Str(UrlA)]), Null, Undefined, Str(UrlA),
          Arr(<<Element(UrlA)>>)}

\* Payloads used where steps and tool results vary.
CorePayloads ==
  {Obj([results |-> Arr(<<Element(UrlA)>>)]),
   Obj([results |-> Arr(<<Element(UrlB)>>)]),
   Obj([results |-> Arr(<<Null, Element(UrlA)>>)]),
   Obj([results |-> Str(UrlA)]),
   Null}

ToolResult(p) == Obj([result |-> p])

Step(toolResults) == Obj([toolResults |-> toolResults])

\* A step without tool results.
BareStep == Obj([text |-> Str(<<"t", "h", "i", "n", "k", "i", "n", "g">>)])

Narrative == <<"N", "o", " ", "s", "u", "c", "h", " ", "s", "t", "u", "d", "y", " ", "e", "x", "i", "s", "t", "s", ";", " ", "d", "e", "b", "u", "n", "k", "e", "d", " ", "b", "y", " ", "N", "A", "S", "A", " ", "i", "n", " ", "1", "9", "6", "0", ".">>

Research(steps) == Obj([text |-> Str(Narrative), steps |-> steps])

\* Research results whose steps are step objects with arrays of tool result
\* records (or no tool results): up to MaxStepsLen steps of up to MaxToolResultsLen
\* tool results over CorePayloads, and one step with one tool result over
\* every payload.
TypedSteps ==
  {Step(Arr(t)) :
     t \in SeqsUpTo({ToolResult(p) : p \in CorePayloads}, MaxToolResultsLen)}
    \cup {BareStep, Step(Null)}

TypedResearch ==
  {Research(Arr(s)) : s \in SeqsUpTo(TypedSteps, MaxStepsLen)}
    \cup {Research(Arr(<<Step(Arr(<<ToolResult(p)>>))>>)) : p \in Payloads}
    \cup {Obj([text |-> Str(Narrative)])}

OneUrlStep(u) ==
  Step(Arr(<<ToolResult(Obj([results |-> Arr(<<Element(u)>>)]))>>))

\* Research results the handler is run on: missing and empty steps, one URL,
\* the same URL in two steps, malformed and well-formed payloads mixed,
\* malformed payloads only, and steps and tool results of other types.
ResearchResults ==
  {Obj([text |-> Str(Narrative)]),
   Research(Arr(<<>>)),
   Research(Arr(<<OneUrlStep(UrlA)>>)),
   Research(Arr(<<OneUrlStep(UrlA), OneUrlStep(UrlB), OneUrlStep(UrlA)>>)),
   Research(Arr(<<Step(Arr(<<ToolResult(Null),
       ToolResult(Obj([results |-> Arr(<<Null, Element(UrlB),
                                        Obj([url |-> Num(7)])>>)]))>>)),
       BareStep, OneUrlStep(UrlA)>>)),
   Research(Arr(<<Step(Arr(<<ToolResult(Null), ToolResult(Str(UrlA)),
       ToolResult(Obj([results |-> Element(UrlA)])),
       ToolResult(Obj([results |-> Arr(<<Str(UrlA)>>)]))>>))>>)),
   Research(Arr(<<Num(5), Str(UrlA), OneUrlStep(UrlB)>>)),
   Research(Arr(<<Step(Str(<<"a", "b">>)), OneUrlStep(UrlB)>>)),
   Research(Arr(<<OneUrlStep(UrlA), Null>>)),
   Research(Arr(<<Undefined>>)),
   Research(Arr(<<Step(Num(3))>>)),
   Research(Arr(<<Step(Arr(<<Null>>))>>)),
   Research(Num(3))}

\* Failures of the external calls.
Failures ==
  {Error(<<"G", "a", "t", "e", "w", "a", "y", " ", "A", "P", "I", " ", "e", "r", "r", "o", "r">>), Error(<<"I", "n", "v", "a", "l", "i", "d", " ", "A", "P", "I", " ", "k", "e", "y">>),
   Error(<<"a", "p", "i", " ", "t", "i", "m", "e", "o", "u", "t">>), Error(<<"f", "e", "t", "c", "h", " ", "f", "a", "i", "l", "e", "d">>), Error(<<>>)}

Suggestion(impact) ==
  Obj([title |-> Str(<<"U", "p", "d", "a", "t", "e", " ", "s", "t", "a", "t", "i", "s", "t", "i", "c", "s">>), impact |-> Str(impact),
       recommendation |-> Str(<<"C", "i", "t", "e", " ", "t", "h", "e", " ", "1", "9", "6", "0", " ", "s", "t", "u", "d", "y", ".">>)])

\* Values the synthesis model can generate, conforming to the schema or not.
GeneratedScores ==
  {Num(0 - 1), Num(0), Num(35), Num(100), Num(101), Num(150), Str(<<"3", "5">>)}

GeneratedSuggestions ==
  {Arr(<<>>), Arr(<<Suggestion(<<"h", "i", "g", "h">>)>>), Arr(<<Suggestion(<<"c", "r", "i", "t", "i", "c", "a", "l">>)>>)}

GeneratedSources ==
  {Arr(<<>>), Arr(<<Str(UrlA)>>), Arr(<<Str(UrlB), Str(UrlA)>>),
   Arr(<<Num(7)>>)}

GeneratedObjects ==
  {Obj([contentScore |-> c, suggestions |-> g, sources |-> u]) :
     c \in GeneratedScores, g \in GeneratedSuggestions, u \in GeneratedSources}
    \cup {Obj([suggestions |-> Arr(<<>>), sources |-> Arr(<<>>)])}

----------------------------------------------------------------------------
(* The handler *)

\* config.agentSecret || process.env.AGENT_SECRET
AgentSecret == OrElse(config.agentSecret, env.AGENT_SECRET)

\* config.aiGatewayApiKey || process.env.AI_GATEWAY_API_KEY
ApiKey == OrElse(config.aiGatewayApiKey, env.AI_GATEWAY_API_KEY)

\* body?.content
BodyContent(b) == IF GetThrows(b) THEN Undefined ELSE Get(b, "content")

\* !providedSecret, without the comparison.
SecretRejectedWhenMissing(q) == ~Truthy(q)

\* !providedSecret || providedSecret !== agentSecret
SecretRejected(q) == ~Truthy(q) \/ ~StrictEquals(q, AgentSecret)

\* !body?.content || typeof body.content !== "string"
ContentMissing(b) ==
  ~Truthy(BodyContent(b)) \/ TypeOf(BodyContent(b)) # "string"

Init ==
  /\ config \in Configs
  /\ env \in Envs
  /\ query = Undefined
  /\ body = Undefined
  /\ pc = "idle"
  /\ statusCode = 0
  /\ message = <<>>
  /\ compared = FALSE
  /\ researchCalls = 0
  /\ synthesisCalls = 0
  /\ content = <<>>
  /\ research = Undefined
  /\ thrown = NotThrown
  /\ sourceUrls = <<>>
  /\ prompt = NoPrompt
  /\ generated = Undefined
  /\ response = Undefined

\* From the arrival of the request to the first external call: the secret,
\* gateway key and body checks, then generateText is invoked.  compared
\* records that providedSecret !== agentSecret was evaluated.
HandleRequest(q, b) ==
  /\ pc = "idle"
  /\ query' = q
  /\ body' = b
  /\ compared' = (Truthy(AgentSecret) /\ Truthy(q))
  /\ IF ~Truthy(AgentSecret)
     THEN /\ Fail(500, <<"A", "G", "E", "N", "T", "_", "S", "E", "C", "R", "E", "T", " ", "n", "o", "t", " ", "c", "o", "n", "f", "i", "g", "u", "r", "e", "d">>)
          /\ UNCHANGED <<researchCalls, content>>
     ELSE IF SecretRejected(q)
     THEN /\ Fail(401, <<"I", "n", "v", "a", "l", "i", "d", " ", "o", "r", " ", "m", "i", "s", "s", "i", "n", "g", " ", "a", "g", "e", "n", "t", " ", "s", "e", "c", "r", "e", "t">>)
          /\ UNCHANGED <<researchCalls, content>>
     ELSE IF ~Truthy(ApiKey)
     THEN /\ Fail(500, <<"A", "I", "_", "G", "A", "T", "E", "W", "A", "Y", "_", "A", "P", "I", "_", "K", "E", "Y", " ", "n", "o", "t", " ", "c", "o", "n", "f", "i", "g", "u", "r", "e", "d">>)
          /\ UNCHANGED <<researchCalls, content>>
     ELSE IF ContentMissing(b)
     THEN /\ Fail(400, <<"M", "i", "s", "s", "i", "n", "g", " ", "r", "e", "q", "u", "i", "r", "e", "d", " ", "f", "i", "e", "l", "d", ":", " ", "c", "o", "n", "t", "e", "n", "t", " ", "(", "s", "t", "r", "i", "n", "g", ")">>)
          /\ UNCHANGED <<researchCalls, content>>
     ELSE IF Len(Trim(BodyContent(b).str)) = 0
     THEN /\ Fail(400, <<"C", "o", "n", "t", "e", "n", "t", " ", "c", "a", "n", "n", "o", "t", " ", "b", "e", " ", "e", "m", "p", "t", "y">>)
          /\ UNCHANGED <<researchCalls, content>>
     ELSE /\ content' = Trim(BodyContent(b).str)
          /\ researchCalls' = researchCalls + 1
          /\ pc' = "research"
          /\ UNCHANGED <<statusCode, message>>
  /\ UNCHANGED <<config, env, synthesisCalls, research, thrown, sourceUrls,
                 prompt, generated, response>>

\* generateText resolves with r: the source URLs are extracted, the prompt
\* is built and generateObject is invoked; a TypeError raised by the
\* extraction is caught by the catch block.
ResearchReturns(r) ==
  /\ pc = "research"
  /\ research' = r
  /\ IF ExtractSourceUrls(r).threw
     THEN /\ Caught(ExtractSourceUrls(r).error)
          /\ UNCHANGED <<sourceUrls, prompt, synthesisCalls>>
     ELSE /\ sourceUrls' = ExtractSourceUrls(r).urls
          /\ prompt' = SynthesisPrompt(r, content, ExtractSourceUrls(r).urls)
          /\ synthesisCalls' = synthesisCalls + 1
          /\ pc' = "synthesis"
          /\ UNCHANGED <<statusCode, message, thrown>>
  /\ UNCHANGED <<config, env, query, body, compared, researchCalls, content,
                 generated, response>>

\* generateText rejects with e and the handler goes on to the synthesis
\* call with no research.
ResearchFailsThenSynthesizes(e) ==
  /\ pc = "research"
  /\ thrown' = e
  /\ prompt' = SynthesisPrompt(Undefined, content, <<>>)
  /\ synthesisCalls' = synthesisCalls + 1
  /\ pc' = "synthesis"
  /\ UNCHANGED <<config, env, query, body, compared, researchCalls,
                 content, research, sourceUrls, statusCode, message,
                 generated, response>>

\* generateText rejects with e.
ResearchFails(e) ==
  /\ pc = "research"
  /\ Caught(e)
  /\ UNCHANGED <<config, env, query, body, compared, researchCalls,
                 synthesisCalls, content, research, sourceUrls, prompt,
                 generated, response>>

\* The synthesis model generates o: generateObject resolves with it when it
\* matches AnalyzeResponseSchema and the handler returns it, and rejects
\* otherwise.
SynthesisReturns(o) ==
  /\ pc = "synthesis"
  /\ generated' = o
  /\ IF Conforms(o)
     THEN /\ response' = o
          /\ statusCode' = 200
          /\ pc' = "responded"
          /\ UNCHANGED <<message, thrown>>
     ELSE /\ Caught(NoObjectGenerated)
          /\ UNCHANGED response
  /\ UNCHANGED <<config, env, query, body, compared, researchCalls,
                 synthesisCalls, content, research, sourceUrls, prompt>>

\* generateObject rejects with e.
SynthesisFails(e) ==
  /\ pc = "synthesis"
  /\ Caught(e)
  /\ UNCHANGED <<config, env, query, body, compared, researchCalls,
                 synthesisCalls, content, research, sourceUrls, prompt,
                 generated, response>>

Next ==
  \/ \E q \in Queries, b \in Bodies : HandleRequest(q, b)
  \/ \E r \in ResearchResults : ResearchReturns(r)
  \/ \E e \in Failures : ResearchFails(e)
  \/ \E o \in GeneratedObjects : SynthesisReturns(o)
  \/ \E e \in Failures : SynthesisFails(e)

Spec == Init /\ [][Next]_vars

\* The handler suspended at generateText, resumed with research results
\* whose steps are typed as the research call types them.
InitExtract ==
  /\ config = [agentSecret |-> Str(SecretA), aiGatewayApiKey |-> Str(KeyA)]
  /\ env = [AGENT_SECRET |-> Undefined, AI_GATEWAY_API_KEY |-> Undefined]
  /\ query = Str(SecretA)
  /\ body = Obj([content |-> Str(<<" ", "a", "b", " ">>)])
  /\ pc = "research"
  /\ statusCode = 0
  /\ message = <<>>
  /\ compared = TRUE
  /\ researchCalls = 1
  /\ synthesisCalls = 0
  /\ content = <<"a", "b">>
  /\ research = Undefined
  /\ thrown = NotThrown
  /\ sourceUrls = <<>>
  /\ prompt = NoPrompt
  /\ generated = Undefined
  /\ response = Undefined

NextExtract == \E r \in TypedResearch : ResearchReturns(r)

SpecExtract == InitExtract /\ [][NextExtract]_vars

----------------------------------------------------------------------------
(* Vocabulary of the properties *)

Handled == pc # "idle"

ExternalCalls == researchCalls + synthesisCalls

\* The configured value, or <<>> when there is none.
Configured(fromConfig, fromEnv) ==
  IF fromConfig.kind = "string" /\ fromConfig.str # <<>> THEN fromConfig.str
  ELSE IF fromEnv.kind = "string" THEN fromEnv.str
  ELSE <<>>

SecretAbsent == Configured(config.agentSecret, env.AGENT_SECRET) = <<>>

KeyAbsent == Configured(config.aiGatewayApiKey, env.AI_GATEWAY_API_KEY) = <<>>

CredentialMatches ==
  /\ query.kind = "string"
  /\ query.str # <<>>
  /\ query.str = Configured(config.agentSecret, env.AGENT_SECRET)

HasStringContent ==
  /\ body.kind = "object"
  /\ "content" \in DOMAIN body.fields
  /\ body.fields.content.kind = "string"

\* The body's content is the empty string or white space only.
BlankContent ==
  /\ HasStringContent
  /\ \A i \in 1..Len(body.fields.content.str) :
       body.fields.content.str[i] \in {" ", "\t", "\n"}

ValidContent ==
  /\ HasStringContent
  /\ \E i \in 1..Len(body.fields.content.str) :
       body.fields.content.str[i] \notin {" ", "\t", "\n"}

\* generateText has resolved.
ResearchReturned == research # Undefined

\* generateText has rejected.
ResearchFailed ==
  researchCalls = 1 /\ research = Undefined /\ thrown # NotThrown

ContainsAPI(msg) ==
  \E i \in 1..Len(msg) :
    i + 2 <= Len(msg) /\ msg[i] = "A" /\ msg[i + 1] = "P" /\ msg[i + 2] = "I"

----------------------------------------------------------------------------
(* C1 *)

\* C1 as stated: every request whose body content is empty or white space
\* only ends in a 400 error with no external call.
C1_Original ==
  (Handled /\ BlankContent) =>
    (pc = "error" /\ statusCode = 400 /\ ExternalCalls = 0)

\* C1 amended: every request whose body content is empty or white space only
\* ends in an error with no external call; the error is 400 when the secret
\* and the gateway key are configured and the request credential matches,
\* and the 500 or 401 of the earlier checks otherwise.
C1_BlankContentRejected ==
  (Handled /\ BlankContent) =>
    /\ pc = "error"
    /\ ExternalCalls = 0
    /\ statusCode \in {400, 401, 500}
    /\ (~SecretAbsent /\ ~KeyAbsent /\ CredentialMatches) <=> statusCode = 400

C1_Witness ==
  /\ pc = "error"
  /\ statusCode = 400
  /\ BlankContent
  /\ Len(body.fields.content.str) > 0
  /\ ExternalCalls = 0

----------------------------------------------------------------------------
(* C2 *)

\* C2 as stated: with the gateway key or the secret absent, every request
\* gets 500 and the request credential is not compared with the secret.
C2_Original ==
  (Handled /\ (SecretAbsent \/ KeyAbsent)) => (statusCode = 500 /\ ~compared)

\* C2 amended: with the secret absent, every request gets 500 and the
\* request credential is not compared; with the secret configured and only
\* the gateway key absent, the credential is checked first, so a request
\* gets 500 when its credential matches and 401 when it is missing or
\* differs; no external call is made in either case.
C2_MissingConfiguration ==
  (Handled /\ (SecretAbsent \/ KeyAbsent)) =>
    /\ pc = "error"
    /\ ExternalCalls = 0
    /\ SecretAbsent => (statusCode = 500 /\ ~compared)
    /\ ~SecretAbsent =>
         statusCode = (IF CredentialMatches THEN 500 ELSE 401)

C2_Witness ==
  /\ pc = "error"
  /\ statusCode = 500
  /\ KeyAbsent
  /\ ~SecretAbsent
  /\ CredentialMatches
  /\ ValidContent

----------------------------------------------------------------------------
(* C3 *)

\* C3: with the secret configured, a request whose agent-secret credential
\* is missing or differs from the secret gets 401 whatever its body is, and
\* no external call is made.
C3_BadCredentialRejected ==
  (Handled /\ ~SecretAbsent /\ ~CredentialMatches) =>
    (pc = "error" /\ statusCode = 401 /\ ExternalCalls = 0)

C3_Witness ==
  /\ pc = "error"
  /\ statusCode = 401
  /\ ~SecretAbsent
  /\ ~KeyAbsent
  /\ query.kind = "string"
  /\ query.str # <<>>
  /\ ~CredentialMatches
  /\ ValidContent

----------------------------------------------------------------------------
(* C4 *)

ScoreOf(o) == o.fields.contentScore

----------------------------------------------------------------------------
(* C5 *)

\* The strings of an array of strings.
Strings(a) == [i \in 1..Len(a.items) |-> a.items[i].str]

\* C5 as stated: in every 200 response sources is the sequence of URLs
\* extracted from the research steps, and contentScore is the generated one.
C5_Original ==
  statusCode = 200 =>
    /\ Strings(response.fields.sources) = sourceUrls
    /\ ScoreOf(response) = ScoreOf(generated)

\* C5 amended: in every 200 response sources and contentScore are the ones
\* the synthesis call returned; the URLs extracted from the research steps
\* are given to the synthesis call in its prompt, each of them when there
\* are any and nothing when there are none, and are not copied into the
\* response.
C5_ResponseIsGenerated ==
  statusCode = 200 =>
    /\ response = generated
    /\ sourceUrls = <<>> => prompt.sources = <<>>
    /\ \A i \in 1..Len(sourceUrls) : Includes(prompt.sources, sourceUrls[i])

C5_Witness ==
  /\ statusCode = 200
  /\ sourceUrls = <<UrlA>>
  /\ response.fields.sources = Arr(<<>>)
  /\ ScoreOf(response) = Num(35)

----------------------------------------------------------------------------
(* C6 *)

WellFormedElement(e) ==
  e.kind = "object" /\ "url" \in DOMAIN e.fields /\ e.fields.url.kind = "string"

WellFormedPayload(p) ==
  /\ p.kind = "object"
  /\ "results" \in DOMAIN p.fields
  /\ p.fields.results.kind = "array"

RECURSIVE Flatten(_)
Flatten(ss) == IF ss = <<>> THEN <<>> ELSE Head(ss) \o Flatten(Tail(ss))

UrlsOfPayload(p) ==
  IF WellFormedPayload(p)
  THEN LET wf == SelectSeq(p.fields.results.items, WellFormedElement)
       IN [i \in 1..Len(wf) |-> wf[i].fields.url.str]
  ELSE <<>>

UrlsOfStep(s) ==
  IF "toolResults" \in DOMAIN s.fields /\ s.fields.toolResults.kind = "array"
  THEN Flatten([i \in 1..Len(s.fields.toolResults.items) |->
                  UrlsOfPayload(s.fields.toolResults.items[i].fields.result)])
  ELSE <<>>

\* The url strings of the well-formed entries of typed research steps, in
\* the order of steps, tool results and elements.
WellFormedUrls(r) ==
  IF "steps" \in DOMAIN r.fields
  THEN Flatten([i \in 1..Len(r.fields.steps.items) |->
                  UrlsOfStep(r.fields.steps.items[i])])
  ELSE <<>>

\* C6: on a sequence of steps mixing well-formed and malformed tool
\* results, the extraction yields the url strings of the well-formed
\* entries, in the order of steps, tool results and elements, duplicates kept.
C6_ExtractsWellFormedInOrder ==
  ResearchReturned =>
    (pc = "synthesis" /\ sourceUrls = WellFormedUrls(research))

C6_Witness ==
  /\ research =
       Research(Arr(<<
         Step(Arr(<<ToolResult(Null),
                    ToolResult(Obj([results |-> Arr(<<Null, Element(UrlA)>>)]))>>)),
         Step(Arr(<<ToolResult(Obj([results |-> Arr(<<Element(UrlB)>>)])),
                    ToolResult(Obj([results |-> Arr(<<Element(UrlA)>>)]))>>))>>))
  /\ sourceUrls = <<UrlA, UrlB, UrlA>>

----------------------------------------------------------------------------
(* C7 *)

\* C7: the extraction never raises; whatever the shape of the research
\* output, the deviating parts are skipped and the synthesis call is made.
C7_ExtractionNeverRaises ==
  ResearchReturned => (synthesisCalls = 1 /\ thrown = NotThrown)

----------------------------------------------------------------------------
(* C8 *)

Rank(p) ==
  CASE p = "idle" -> 0
    [] p = "research" -> 1
    [] p = "synthesis" -> 2
    [] p = "responded" -> 3
    [] p = "error" -> 4

C8_Order ==
  /\ researchCalls \in {0, 1}
  /\ synthesisCalls \in {0, 1}
  /\ researchCalls = 1 =>
       (~SecretAbsent /\ ~KeyAbsent /\ CredentialMatches /\ ValidContent)
  /\ synthesisCalls = 1 => (researchCalls = 1 /\ ResearchReturned)
  /\ ResearchFailed => (synthesisCalls = 0 /\ pc = "error")
  /\ pc = "research" <=> (researchCalls = 1 /\ ~ResearchReturned /\ thrown = NotThrown)

C8_Forward ==
  /\ Rank(pc') > Rank(pc)
  /\ researchCalls' >= researchCalls
  /\ synthesisCalls' >= synthesisCalls
  /\ researchCalls' > researchCalls => (pc = "idle" /\ pc' = "research")
  /\ synthesisCalls' > synthesisCalls => (pc = "research" /\ pc' = "synthesis")

\* C8: a request moves forward only; the research call is made at most once
\* and only after the secret, key, credential and content checks passed; the
\* synthesis call is made at most once and only after the research call
\* returned; a failed research call ends the request without synthesis.
C8_LinearPipeline == [](C8_Order) /\ [][C8_Forward]_vars

C8_Witness ==
  /\ ResearchFailed
  /\ pc = "error"
  /\ researchCalls = 1
  /\ synthesisCalls = 0

----------------------------------------------------------------------------
(* C9 *)

\* C9: a failed research call ends the request with 503 when the failure
\* message contains "API" and with 500 otherwise; the response message is
\* one of two fixed texts and does not contain the failure's text.
C9_ResearchFailureStatus ==
  ResearchFailed =>
    /\ pc = "error"
    /\ ContainsAPI(thrown.message) =>
         (statusCode = 503 /\ message = ServiceUnavailableMessage)
    /\ ~ContainsAPI(thrown.message) =>
         (statusCode = 500 /\ message = AnalysisFailedMessage)
    /\ thrown.message # <<>> => ~Includes(message, thrown.message)

C9_Witness ==
  /\ ResearchFailed
  /\ thrown = Error(<<"G", "a", "t", "e", "w", "a", "y", " ", "A", "P", "I", " ", "e", "r", "r", "o", "r">>)
  /\ statusCode = 503

----------------------------------------------------------------------------
(* C10 *)

\* C10: for content longer than 2000 characters the synthesis prompt embeds
\* its first 2000 characters followed by the marker "..."; for content of
\* at most 2000 characters it embeds the content, without the marker.
C10_Truncation ==
  synthesisCalls = 1 =>
    /\ content = Trim(body.fields.content.str)
    /\ IF Len(content) > 2000
       THEN /\ Len(prompt.content) = 2003
            /\ \A i \in 1..2000 : prompt.content[i] = content[i]
            /\ \A i \in 2001..2003 : prompt.content[i] = "."
       ELSE prompt.content = content

C10_Witness ==
  /\ synthesisCalls = 1
  /\ Len(content) = 2001
  /\ Len(prompt.content) = 2003

====
